---- MODULE Spec2Model ----
(***************************************************************************)
(* Headless Selenium fetcher (src/selenium-search/fetch.py).               *)
(*                                                                         *)
(* One invocation of the command line tool is modelled as a process that   *)
(* runs main(): validate_url, then fetch (build_driver, navigation, the    *)
(* two WebDriverWait polls, the fixed sleep, the screenshot, extraction    *)
(* and the finally block), then the reporting code of main and the         *)
(* interpreter's exit.  The browser is the environment: every driver call  *)
(* may succeed or raise, and the page of a live session may change while   *)
(* fetch is waiting.                                                       *)
(***************************************************************************)
EXTENDS Integers, Sequences, FiniteSets, TLC

\* ------------------------------------------------------------------ bounds

\* largest --timeout value, counted in WebDriverWait poll intervals
MaxTimeout == 1
\* largest number of elements a selector matches on a page
MaxElems == 2

\* ------------------------------------------------------- values and inputs

Procs == {"p1", "p2"}

\* Optional[str]
None == [some |-> FALSE, val |-> ""]
Some(s) == [some |-> TRUE, val |-> s]
\* Python truthiness of an Optional[str]: None and "" are falsy
Truthy(o) == o.some /\ o.val # ""

\* command-line URLs, character by character
UrlEmpty == << >>
UrlBlank == << " " >>
UrlBare == << "a", ".", "b" >>
UrlFtp == << "f", "t", "p", ":", "/", "/", "a" >>
UrlHttpsPadded == << " ", "h", "t", "t", "p", "s", ":", "/", "/", "a", " " >>
UrlHttpNoHost == << "h", "t", "t", "p", ":", "/", "/" >>
Urls == {UrlEmpty, UrlBlank, UrlBare, UrlFtp, UrlHttpsPadded, UrlHttpNoHost}

Whitespace == {" ", "\t", "\n"}
HttpPrefix == << "h", "t", "t", "p", ":", "/", "/" >>
HttpsPrefix == << "h", "t", "t", "p", "s", ":", "/", "/" >>

Timeouts == 0..MaxTimeout
WaitSeconds == {0, 1}
Selectors == {None, Some(""), Some(".item")}
ScreenshotPaths == {None, Some("shot.png")}

Args == [url : Urls, timeout : Timeouts, wait_seconds : WaitSeconds,
         selector : Selectors, as_text : BOOLEAN, screenshot_path : ScreenshotPaths]

NoArgs == [url |-> UrlEmpty, timeout |-> 0, wait_seconds |-> 0,
           selector |-> None, as_text |-> FALSE, screenshot_path |-> None]

\* ------------------------------------------------------------ str helpers

RECURSIVE LStrip(_)
LStrip(s) == IF s # << >> /\ Head(s) \in Whitespace THEN LStrip(Tail(s)) ELSE s

RECURSIVE RStrip(_)
RStrip(s) ==
    IF s # << >> /\ s[Len(s)] \in Whitespace THEN RStrip(SubSeq(s, 1, Len(s) - 1)) ELSE s

\* str.strip()
Strip(s) == RStrip(LStrip(s))

\* str.startswith(prefix)
StartsWith(s, prefix) ==
    Len(s) >= Len(prefix) /\ SubSeq(s, 1, Len(prefix)) = prefix

\* mutant: validate_url without its scheme check
ValidateResultEmptyCheckOnly(url) ==
    IF Strip(url) = << >> THEN "empty_url" ELSE "ok"

\* validate_url: the ValueError message it raises, or "ok"
ValidateResult(url) ==
    LET u == Strip(url)
    IN  IF u = << >> THEN "empty_url"
        ELSE IF ~(StartsWith(u, HttpPrefix) \/ StartsWith(u, HttpsPrefix))
             THEN "url_must_start_with_http_or_https"
             ELSE "ok"

\* ---------------------------------------------------------------- the page

\* a DOM element matched by the selector: its visible text and its outerHTML
ElemA == [text |-> "A", html |-> "<p>A</p>"]
ElemB == [text |-> "B", html |-> "<p>B</p>"]
ElemBlank == [text |-> "", html |-> "<p></p>"]
Elements == {ElemA, ElemB, ElemBlank}

RECURSIVE SeqsUpTo(_, _)
SeqsUpTo(S, n) ==
    IF n = 0 THEN {<< >>}
    ELSE LET shorter == SeqsUpTo(S, n - 1)
         IN  shorter \cup {Append(q, e) : q \in shorter, e \in S}

ElemSeqs == SeqsUpTo(Elements, MaxElems)

\* the document body as find_element(By.TAG_NAME, "body") sees it
NoBody == [present |-> FALSE, text |-> ""]
Bodies == {NoBody, [present |-> TRUE, text |-> "Body"]}

\* the page of a session as fetch with arguments a can observe it
\* elems: the elements a.selector matches, in document order; none without a selector
\* body: the document body
PagesFor(a) == [elems : IF Truthy(a.selector) THEN ElemSeqs ELSE {<< >>}, body : Bodies]
BlankPage == [elems |-> << >>, body |-> NoBody]

\* "sep".join(parts)
RECURSIVE Join(_, _)
Join(parts, sep) ==
    IF parts = << >> THEN ""
    ELSE IF Len(parts) = 1 THEN parts[1]
    ELSE parts[1] \o sep \o Join(Tail(parts), sep)

\* [f(e) for e in elems]
RECURSIVE MapHtml(_)
MapHtml(elems) ==
    IF elems = << >> THEN << >> ELSE << Head(elems).html >> \o MapHtml(Tail(elems))

\* [e.text for e in elems if e.text]
RECURSIVE TextsNonEmpty(_)
TextsNonEmpty(elems) ==
    IF elems = << >> THEN << >>
    ELSE (IF Head(elems).text # "" THEN << Head(elems).text >> ELSE << >>)
         \o TextsNonEmpty(Tail(elems))

\* driver.page_source: the serialized document
PageSource(page) ==
    "<html>"
    \o (IF page.body.present THEN "<body>" \o page.body.text \o "</body>" ELSE "")
    \o "</html>"

\* ------------------------------------------------------------------ state

\* an exception: its class (TimeoutException, WebDriverException or another
\* Exception) and the step of fetch that raised it; NoExc when there is none
NoExc == [cls |-> "", stage |-> ""]
\* isinstance(e, WebDriverException): TimeoutException is a subclass
IsWebDriverException(e) == e.cls \in {"TimeoutException", "WebDriverException"}

VARIABLES
    args,       \* argparse result of each invocation
    pc,         \* where each invocation is in main / fetch
    url,        \* main: the validated url
    driver,     \* fetch: the local driver, 0 for None, else a session id
    elapsed,    \* poll intervals slept in the running WebDriverWait
    elems,      \* fetch: the local elems returned by find_elements
    exc,        \* the exception propagating out of fetch, or NoExc
    content,    \* the value fetch returns, None while there is none
    sessions,   \* the browser processes started so far, by session id
    files,      \* screenshot files on disk: (path, invocation that wrote it)
    log,        \* history: the steps each invocation has completed, in order
    stdout,     \* lines printed to stdout
    stderr,     \* lines printed to stderr
    rc,         \* the value main returned, -1 before it returns
    exitCode    \* the exit status of the process, -1 while it runs

vars == << args, pc, url, driver, elapsed, elems, exc, content, sessions, files,
           log, stdout, stderr, rc, exitCode >>

NewSession(p) == [owner |-> p, live |-> TRUE, quits |-> 0, loaded |-> FALSE,
                  page |-> BlankPage]

\* the state of every invocation before its main has made a step; only the
\* running ones ever start
Started(running) ==
    /\ pc = [p \in Procs |-> IF p \in running THEN "main" ELSE "absent"]
    /\ url = [p \in Procs |-> << >>]
    /\ driver = [p \in Procs |-> 0]
    /\ elapsed = [p \in Procs |-> 0]
    /\ elems = [p \in Procs |-> << >>]
    /\ exc = [p \in Procs |-> NoExc]
    /\ content = [p \in Procs |-> None]
    /\ sessions = << >>
    /\ files = {}
    /\ log = [p \in Procs |-> << >>]
    /\ stdout = [p \in Procs |-> << >>]
    /\ stderr = [p \in Procs |-> << >>]
    /\ rc = [p \in Procs |-> -1]
    /\ exitCode = [p \in Procs |-> -1]

\* Init for a set of running invocations; the others never start
InitWith(running) ==
    /\ \E a \in [running -> Args] :
           args = [p \in Procs |-> IF p \in running THEN a[p] ELSE NoArgs]
    /\ Started(running)

Init == InitWith({"p1"})

\* ---------------------------------------------------------------- helpers

Logged(p, step, out) == log' = [log EXCEPT ![p] = Append(@, [step |-> step, out |-> out])]

\* an exception leaves the try block of fetch: control goes to finally
Raise(p, cls, stage) ==
    /\ exc' = [exc EXCEPT ![p] = [cls |-> cls, stage |-> stage]]
    /\ pc' = [pc EXCEPT ![p] = "finally"]

\* fetch lines 145-166: which extraction branch runs after the screenshot step
AfterScreenshot(p) ==
    IF Truthy(args[p].selector) THEN "find_elements" ELSE "whole_doc"

\* mutant: the screenshot is taken only when no selector was given
AfterSelectorWaitShotWithoutSelectorOnly(p) ==
    IF Truthy(args[p].screenshot_path) /\ ~Truthy(args[p].selector)
    THEN "screenshot"
    ELSE AfterScreenshot(p)

\* fetch lines 141-142: if screenshot_path
AfterSelectorWait(p) ==
    IF Truthy(args[p].screenshot_path) THEN "screenshot" ELSE AfterScreenshot(p)

\* mutant: the screenshot block placed before the selector wait
AfterSleepShotFirst(p) ==
    IF Truthy(args[p].screenshot_path) THEN "screenshot"
    ELSE IF Truthy(args[p].selector) THEN "selector_wait"
    ELSE AfterScreenshot(p)

\* fetch lines 131-138: if selector
AfterSleep(p) ==
    IF Truthy(args[p].selector) THEN "selector_wait" ELSE AfterSelectorWait(p)

\* mutant: the test written as wait_seconds >= 0, so that the delay step runs
\* even when no delay was requested
AfterLoadWaitSleepsAlways(p) ==
    IF args[p].wait_seconds >= 0 THEN "sleep" ELSE AfterSleep(p)

\* fetch lines 127-128: if wait_seconds > 0
AfterLoadWait(p) ==
    IF args[p].wait_seconds > 0 THEN "sleep" ELSE AfterSleep(p)

\* ------------------------------------------------------------------- main

\* mutant: the first header line printed as soon as the URL is validated, before
\* fetch is called
ValidateUrlPrintsHeaderFirst(p) ==
    /\ pc[p] = "main"
    /\ LET r == ValidateResult(args[p].url)
       IN  IF r = "ok"
           THEN /\ url' = [url EXCEPT ![p] = Strip(args[p].url)]
                /\ stdout' = [stdout EXCEPT ![p] = Append(@, << "url", Strip(args[p].url) >>)]
                /\ pc' = [pc EXCEPT ![p] = "build_driver"]
                /\ Logged(p, "validate_url", "ok")
                /\ UNCHANGED << stderr, rc >>
           ELSE /\ stderr' = [stderr EXCEPT ![p] = Append(@, << "error", r >>)]
                /\ rc' = [rc EXCEPT ![p] = 2]
                /\ pc' = [pc EXCEPT ![p] = "main_returned"]
                /\ Logged(p, "validate_url", "ValueError")
                /\ UNCHANGED << url, stdout >>
    /\ UNCHANGED << args, driver, elapsed, elems, exc, content, sessions, files,
                    exitCode >>

\* main lines 191-195: validate_url, and the error path returning 2
ValidateUrl(p) ==
    /\ pc[p] = "main"
    /\ LET r == ValidateResult(args[p].url)
       IN  IF r = "ok"
           THEN /\ url' = [url EXCEPT ![p] = Strip(args[p].url)]
                /\ pc' = [pc EXCEPT ![p] = "build_driver"]
                /\ Logged(p, "validate_url", "ok")
                /\ UNCHANGED << stderr, rc >>
           ELSE /\ stderr' = [stderr EXCEPT ![p] = Append(@, << "error", r >>)]
                /\ rc' = [rc EXCEPT ![p] = 2]
                /\ pc' = [pc EXCEPT ![p] = "main_returned"]
                /\ Logged(p, "validate_url", "ValueError")
                /\ UNCHANGED url
    /\ UNCHANGED << args, driver, elapsed, elems, exc, content, sessions, files,
                    stdout, exitCode >>

\* ----------------------------------------------------------- build_driver

\* mutant: a failed browser start tried a second time before giving up
LaunchBrowserRetriesOnce(p) ==
    /\ pc[p] = "build_driver"
    /\ \/ /\ sessions' = Append(sessions, NewSession(p))
          /\ pc' = [pc EXCEPT ![p] = "inject"]
          /\ Logged(p, "launch", "ok")
          /\ UNCHANGED exc
       \/ /\ \E i \in DOMAIN log[p] : log[p][i] = [step |-> "launch", out |-> "raised"]
          /\ \E cls \in {"WebDriverException", "Exception"} : Raise(p, cls, "launch")
          /\ Logged(p, "launch", "raised")
          /\ UNCHANGED sessions
       \/ /\ ~\E i \in DOMAIN log[p] : log[p][i] = [step |-> "launch", out |-> "raised"]
          /\ Logged(p, "launch", "raised")
          /\ UNCHANGED << sessions, pc, exc >>
    /\ UNCHANGED << args, url, driver, elapsed, elems, content, files, stdout, stderr,
                    rc, exitCode >>

\* build_driver lines 74-75: webdriver.Chrome(...) starts the browser or raises
LaunchBrowser(p) ==
    /\ pc[p] = "build_driver"
    /\ \/ /\ sessions' = Append(sessions, NewSession(p))
          /\ pc' = [pc EXCEPT ![p] = "inject"]
          /\ Logged(p, "launch", "ok")
          /\ UNCHANGED exc
       \/ /\ \E cls \in {"WebDriverException", "Exception"} : Raise(p, cls, "launch")
          /\ Logged(p, "launch", "raised")
          /\ UNCHANGED sessions
    /\ UNCHANGED << args, url, driver, elapsed, elems, content, files, stdout, stderr,
                    rc, exitCode >>

\* mutant: the driver kept in one place shared by all invocations, so that
\* fetch goes on with the browser started last
InjectScriptBindsLatestSession(p) ==
    /\ pc[p] = "inject"
    /\ \E out \in {"ok", "swallowed"} : Logged(p, "inject", out)
    /\ driver' = [driver EXCEPT ![p] = Len(sessions)]
    /\ pc' = [pc EXCEPT ![p] = "set_page_load_timeout"]
    /\ UNCHANGED << args, url, elapsed, elems, exc, content, sessions, files, stdout,
                    stderr, rc, exitCode >>

\* mutant: the CDP injection without its try/except, so that its failure leaves
\* build_driver before the return and fetch never gets the driver
InjectScriptFailureRaises(p) ==
    /\ pc[p] = "inject"
    /\ \/ /\ Logged(p, "inject", "ok")
          /\ driver' = [driver EXCEPT ![p] =
                           CHOOSE sid \in DOMAIN sessions : sessions[sid].owner = p]
          /\ pc' = [pc EXCEPT ![p] = "set_page_load_timeout"]
          /\ UNCHANGED exc
       \/ /\ Logged(p, "inject", "raised")
          /\ Raise(p, "WebDriverException", "inject")
          /\ UNCHANGED driver
    /\ UNCHANGED << args, url, elapsed, elems, content, sessions, files, stdout,
                    stderr, rc, exitCode >>

\* build_driver lines 78-90: the CDP injection, its failure swallowed, and the
\* return that binds fetch's local driver (line 112) to the browser this call of
\* build_driver started
InjectScript(p) ==
    /\ pc[p] = "inject"
    /\ \E out \in {"ok", "swallowed"} : Logged(p, "inject", out)
    /\ driver' = [driver EXCEPT ![p] =
                     CHOOSE sid \in DOMAIN sessions : sessions[sid].owner = p]
    /\ pc' = [pc EXCEPT ![p] = "set_page_load_timeout"]
    /\ UNCHANGED << args, url, elapsed, elems, exc, content, sessions, files, stdout,
                    stderr, rc, exitCode >>

\* ------------------------------------------------------------------ fetch

SessionOf(p) == sessions[driver[p]]

\* fetch line 113: driver.set_page_load_timeout(timeout)
SetPageLoadTimeout(p) ==
    /\ pc[p] = "set_page_load_timeout"
    /\ \/ /\ pc' = [pc EXCEPT ![p] = "get"]
          /\ Logged(p, "set_page_load_timeout", "ok")
          /\ UNCHANGED exc
       \/ /\ Raise(p, "WebDriverException", "set_page_load_timeout")
          /\ Logged(p, "set_page_load_timeout", "raised")
    /\ UNCHANGED << args, url, driver, elapsed, elems, content, sessions, files,
                    stdout, stderr, rc, exitCode >>

\* mutant: a failed navigation captures the error page before re-raising
NavigateCapturesOnError(p) ==
    /\ pc[p] = "get"
    /\ \/ /\ \E page \in PagesFor(args[p]) :
                sessions' = [sessions EXCEPT ![driver[p]] =
                                [@ EXCEPT !.loaded = TRUE, !.page = page]]
          /\ pc' = [pc EXCEPT ![p] = "load_wait"]
          /\ Logged(p, "get", "ok")
          /\ UNCHANGED << exc, files >>
       \/ /\ \E cls \in {"TimeoutException", "WebDriverException"} : Raise(p, cls, "get")
          /\ Logged(p, "get", "raised")
          /\ files' = IF Truthy(args[p].screenshot_path)
                      THEN files \cup {<< args[p].screenshot_path.val, p >>}
                      ELSE files
          /\ UNCHANGED sessions
    /\ elapsed' = [elapsed EXCEPT ![p] = 0]
    /\ UNCHANGED << args, url, driver, elems, content, stdout, stderr, rc, exitCode >>

\* fetch line 115: driver.get(url); the page load may exceed the page load
\* timeout (TimeoutException) or fail in transport (WebDriverException)
Navigate(p) ==
    /\ pc[p] = "get"
    /\ \/ /\ \E page \in PagesFor(args[p]) :
                sessions' = [sessions EXCEPT ![driver[p]] =
                                [@ EXCEPT !.loaded = TRUE, !.page = page]]
          /\ pc' = [pc EXCEPT ![p] = "load_wait"]
          /\ Logged(p, "get", "ok")
          /\ UNCHANGED exc
       \/ /\ \E cls \in {"TimeoutException", "WebDriverException"} : Raise(p, cls, "get")
          /\ Logged(p, "get", "raised")
          /\ UNCHANGED sessions
    /\ elapsed' = [elapsed EXCEPT ![p] = 0]
    /\ UNCHANGED << args, url, driver, elems, content, files, stdout, stderr, rc,
                    exitCode >>

\* fetch line 119: the deadline WebDriverWait is given for the load wait
LoadWaitDeadline(a) == a.timeout

\* fetch line 133: the deadline WebDriverWait is given for the selector wait
SelectorWaitDeadline(a) == a.timeout

\* WebDriverWait(driver, timeout).until: after a poll that found nothing the wait
\* sleeps one poll interval and gives up once its deadline has passed
DeadlinePassed(p) ==
    elapsed[p] + 1 > (IF pc[p] = "load_wait" THEN LoadWaitDeadline(args[p])
                      ELSE SelectorWaitDeadline(args[p]))

\* mutant: the load wait without its except TimeoutException clause
LoadWaitPollTimeoutEscalates(p) ==
    /\ pc[p] = "load_wait"
    /\ \/ /\ pc' = [pc EXCEPT ![p] = AfterLoadWait(p)]
          /\ elapsed' = [elapsed EXCEPT ![p] = 0]
          /\ Logged(p, "load_wait", "ready")
          /\ UNCHANGED exc
       \/ /\ DeadlinePassed(p)
          /\ Raise(p, "TimeoutException", "load_wait")
          /\ elapsed' = [elapsed EXCEPT ![p] = 0]
          /\ Logged(p, "load_wait", "timeout")
       \/ /\ ~DeadlinePassed(p)
          /\ elapsed' = [elapsed EXCEPT ![p] = @ + 1]
          /\ UNCHANGED << pc, log, exc >>
       \/ /\ Raise(p, "WebDriverException", "load_wait")
          /\ elapsed' = [elapsed EXCEPT ![p] = 0]
          /\ Logged(p, "load_wait", "raised")
    /\ UNCHANGED << args, url, driver, elems, content, sessions, files, stdout, stderr,
                    rc, exitCode >>

\* mutant: one deadline computed before the load wait and used by both waits, so
\* that the time the load wait took is taken from the selector wait
LoadWaitPollSharedBudget(p) ==
    /\ pc[p] = "load_wait"
    /\ \/ /\ pc' = [pc EXCEPT ![p] = AfterLoadWait(p)]
          /\ Logged(p, "load_wait", "ready")
          /\ UNCHANGED << exc, elapsed >>
       \/ /\ DeadlinePassed(p)
          /\ pc' = [pc EXCEPT ![p] = AfterLoadWait(p)]
          /\ Logged(p, "load_wait", "timeout")
          /\ UNCHANGED << exc, elapsed >>
       \/ /\ ~DeadlinePassed(p)
          /\ elapsed' = [elapsed EXCEPT ![p] = @ + 1]
          /\ UNCHANGED << pc, log, exc >>
       \/ /\ Raise(p, "WebDriverException", "load_wait")
          /\ elapsed' = [elapsed EXCEPT ![p] = 0]
          /\ Logged(p, "load_wait", "raised")
    /\ UNCHANGED << args, url, driver, elems, content, sessions, files, stdout, stderr,
                    rc, exitCode >>

\* fetch lines 118-124: one poll of document.readyState, which is interactive or
\* complete (first disjunct) or not yet (second and third); a TimeoutException
\* is caught, be it the wait's own at its deadline (second) or one the driver
\* raised for execute_script, a script or renderer timeout (fourth); any other
\* exception of execute_script propagates
LoadWaitPoll(p) ==
    /\ pc[p] = "load_wait"
    /\ \/ /\ pc' = [pc EXCEPT ![p] = AfterLoadWait(p)]
          /\ elapsed' = [elapsed EXCEPT ![p] = 0]
          /\ Logged(p, "load_wait", "ready")
          /\ UNCHANGED exc
       \/ /\ DeadlinePassed(p)
          /\ pc' = [pc EXCEPT ![p] = AfterLoadWait(p)]
          /\ elapsed' = [elapsed EXCEPT ![p] = 0]
          /\ Logged(p, "load_wait", "timeout")
          /\ UNCHANGED exc
       \/ /\ ~DeadlinePassed(p)
          /\ elapsed' = [elapsed EXCEPT ![p] = @ + 1]
          /\ UNCHANGED << pc, log, exc >>
       \/ /\ pc' = [pc EXCEPT ![p] = AfterLoadWait(p)]
          /\ elapsed' = [elapsed EXCEPT ![p] = 0]
          /\ Logged(p, "load_wait", "timeout")
          /\ UNCHANGED exc
       \/ /\ Raise(p, "WebDriverException", "load_wait")
          /\ elapsed' = [elapsed EXCEPT ![p] = 0]
          /\ Logged(p, "load_wait", "raised")
    /\ UNCHANGED << args, url, driver, elems, content, sessions, files, stdout, stderr,
                    rc, exitCode >>

\* fetch lines 127-128: time.sleep(wait_seconds)
FixedSleep(p) ==
    /\ pc[p] = "sleep"
    /\ pc' = [pc EXCEPT ![p] = AfterSleep(p)]
    /\ Logged(p, "sleep", "ok")
    /\ UNCHANGED << args, url, driver, elapsed, elems, exc, content, sessions, files,
                    stdout, stderr, rc, exitCode >>

\* mutant: the selector wait without its except TimeoutException clause
SelectorWaitPollTimeoutEscalates(p) ==
    /\ pc[p] = "selector_wait"
    /\ \/ /\ SessionOf(p).page.elems # << >>
          /\ pc' = [pc EXCEPT ![p] = AfterSelectorWait(p)]
          /\ elapsed' = [elapsed EXCEPT ![p] = 0]
          /\ Logged(p, "selector_wait", "found")
          /\ UNCHANGED exc
       \/ /\ SessionOf(p).page.elems = << >>
          /\ DeadlinePassed(p)
          /\ Raise(p, "TimeoutException", "selector_wait")
          /\ elapsed' = [elapsed EXCEPT ![p] = 0]
          /\ Logged(p, "selector_wait", "timeout")
       \/ /\ SessionOf(p).page.elems = << >>
          /\ ~DeadlinePassed(p)
          /\ elapsed' = [elapsed EXCEPT ![p] = @ + 1]
          /\ UNCHANGED << pc, log, exc >>
       \/ /\ Raise(p, "WebDriverException", "selector_wait")
          /\ elapsed' = [elapsed EXCEPT ![p] = 0]
          /\ Logged(p, "selector_wait", "raised")
    /\ UNCHANGED << args, url, driver, elems, content, sessions, files, stdout, stderr,
                    rc, exitCode >>

\* mutant: the selector wait wrapped in "except Exception: pass", so that a
\* driver fault while polling is tolerated like a timeout
SelectorWaitPollSwallowsAll(p) ==
    /\ pc[p] = "selector_wait"
    /\ \/ /\ SessionOf(p).page.elems # << >>
          /\ Logged(p, "selector_wait", "found")
       \/ /\ SessionOf(p).page.elems = << >>
          /\ DeadlinePassed(p)
          /\ Logged(p, "selector_wait", "timeout")
       \/ Logged(p, "selector_wait", "raised")
    /\ pc' = [pc EXCEPT ![p] = AfterSelectorWait(p)]
    /\ elapsed' = [elapsed EXCEPT ![p] = 0]
    /\ UNCHANGED << args, url, driver, elems, exc, content, sessions, files, stdout,
                    stderr, rc, exitCode >>

\* fetch lines 131-138: one poll of presence_of_element_located; NoSuchElement is
\* ignored by the wait; a TimeoutException is caught, be it the wait's own at its
\* deadline (second disjunct) or one the driver raised for find_element (fourth);
\* anything else propagates
SelectorWaitPoll(p) ==
    /\ pc[p] = "selector_wait"
    /\ \/ /\ SessionOf(p).page.elems # << >>
          /\ pc' = [pc EXCEPT ![p] = AfterSelectorWait(p)]
          /\ elapsed' = [elapsed EXCEPT ![p] = 0]
          /\ Logged(p, "selector_wait", "found")
          /\ UNCHANGED exc
       \/ /\ SessionOf(p).page.elems = << >>
          /\ DeadlinePassed(p)
          /\ pc' = [pc EXCEPT ![p] = AfterSelectorWait(p)]
          /\ elapsed' = [elapsed EXCEPT ![p] = 0]
          /\ Logged(p, "selector_wait", "timeout")
          /\ UNCHANGED exc
       \/ /\ SessionOf(p).page.elems = << >>
          /\ ~DeadlinePassed(p)
          /\ elapsed' = [elapsed EXCEPT ![p] = @ + 1]
          /\ UNCHANGED << pc, log, exc >>
       \/ /\ pc' = [pc EXCEPT ![p] = AfterSelectorWait(p)]
          /\ elapsed' = [elapsed EXCEPT ![p] = 0]
          /\ Logged(p, "selector_wait", "timeout")
          /\ UNCHANGED exc
       \/ /\ Raise(p, "WebDriverException", "selector_wait")
          /\ elapsed' = [elapsed EXCEPT ![p] = 0]
          /\ Logged(p, "selector_wait", "raised")
    /\ UNCHANGED << args, url, driver, elems, content, sessions, files, stdout, stderr,
                    rc, exitCode >>

\* mutant: the screenshot wrapped in try/except that swallows its failure
SaveScreenshotSwallowsError(p) ==
    /\ pc[p] = "screenshot"
    /\ \/ /\ files' = files \cup {<< args[p].screenshot_path.val, p >>}
          /\ Logged(p, "save_screenshot", "written")
       \/ /\ Logged(p, "save_screenshot", "not_written")
          /\ UNCHANGED files
       \/ /\ Logged(p, "save_screenshot", "raised")
          /\ UNCHANGED files
    /\ pc' = [pc EXCEPT ![p] = AfterScreenshot(p)]
    /\ UNCHANGED << args, url, driver, elapsed, elems, exc, content, sessions, stdout,
                    stderr, rc, exitCode >>

\* fetch lines 141-142: driver.save_screenshot(path) writes the file and returns
\* True, returns False when the file cannot be written, or raises
SaveScreenshot(p) ==
    /\ pc[p] = "screenshot"
    /\ \/ /\ files' = files \cup {<< args[p].screenshot_path.val, p >>}
          /\ pc' = [pc EXCEPT ![p] = AfterScreenshot(p)]
          /\ Logged(p, "save_screenshot", "written")
          /\ UNCHANGED exc
       \/ /\ pc' = [pc EXCEPT ![p] = AfterScreenshot(p)]
          /\ Logged(p, "save_screenshot", "not_written")
          /\ UNCHANGED << files, exc >>
       \/ /\ Raise(p, "WebDriverException", "save_screenshot")
          /\ Logged(p, "save_screenshot", "raised")
          /\ UNCHANGED files
    /\ UNCHANGED << args, url, driver, elapsed, elems, content, sessions, stdout,
                    stderr, rc, exitCode >>

\* mutant: the test "if elems" written as "if elems is not None", so that an
\* empty match list is read like a non-empty one
FindElementsEmptyIsResult(p) ==
    /\ pc[p] = "find_elements"
    /\ \/ /\ elems' = [elems EXCEPT ![p] = SessionOf(p).page.elems]
          /\ pc' = [pc EXCEPT ![p] = "read_elems"]
          /\ Logged(p, "find_elements", "ok")
          /\ UNCHANGED exc
       \/ /\ Raise(p, "WebDriverException", "find_elements")
          /\ Logged(p, "find_elements", "raised")
          /\ UNCHANGED elems
    /\ UNCHANGED << args, url, driver, elapsed, content, sessions, files, stdout,
                    stderr, rc, exitCode >>

\* fetch lines 145-147: elems = driver.find_elements(By.CSS_SELECTOR, selector)
FindElements(p) ==
    /\ pc[p] = "find_elements"
    /\ \/ /\ elems' = [elems EXCEPT ![p] = SessionOf(p).page.elems]
          /\ pc' = [pc EXCEPT ![p] =
                      IF SessionOf(p).page.elems # << >> THEN "read_elems" ELSE "whole_doc"]
          /\ Logged(p, "find_elements", "ok")
          /\ UNCHANGED exc
       \/ /\ Raise(p, "WebDriverException", "find_elements")
          /\ Logged(p, "find_elements", "raised")
          /\ UNCHANGED elems
    /\ UNCHANGED << args, url, driver, elapsed, content, sessions, files, stdout,
                    stderr, rc, exitCode >>

\* mutant: the outerHTML strings joined by a single newline
ElementsContentSingleNewline(es, as_text) ==
    IF as_text THEN Join(TextsNonEmpty(es), "\n\n") ELSE Join(MapHtml(es), "\n")

\* mutant: the texts joined without the "if e.text" filter
ElementsContentKeepsEmptyTexts(es, as_text) ==
    IF as_text THEN Join([i \in DOMAIN es |-> es[i].text], "\n\n")
    ELSE Join(MapHtml(es), "\n\n")

\* fetch lines 148-155: what is returned for a non-empty elems
ElementsContent(es, as_text) ==
    IF as_text THEN Join(TextsNonEmpty(es), "\n\n") ELSE Join(MapHtml(es), "\n\n")

\* mutant: an empty result of the matched elements treated like no match, so
\* that fetch goes on to the whole-document block
ReadElementsFallsBackWhenEmpty(p) ==
    /\ pc[p] = "read_elems"
    /\ \/ /\ IF ElementsContent(elems[p], args[p].as_text) # ""
             THEN /\ content' = [content EXCEPT ![p] =
                                   Some(ElementsContent(elems[p], args[p].as_text))]
                  /\ pc' = [pc EXCEPT ![p] = "finally"]
             ELSE /\ pc' = [pc EXCEPT ![p] = "whole_doc"]
                  /\ UNCHANGED content
          /\ Logged(p, "read_elems", "ok")
          /\ UNCHANGED exc
       \/ /\ Raise(p, "WebDriverException", "read_elems")
          /\ Logged(p, "read_elems", "raised")
          /\ UNCHANGED content
    /\ UNCHANGED << args, url, driver, elapsed, elems, sessions, files, stdout, stderr,
                    rc, exitCode >>

\* fetch lines 148-155: read e.text or outerHTML of every matched element; a
\* read of an element that has gone stale raises
ReadElements(p) ==
    /\ pc[p] = "read_elems"
    /\ \/ /\ content' = [content EXCEPT ![p] = Some(ElementsContent(elems[p], args[p].as_text))]
          /\ pc' = [pc EXCEPT ![p] = "finally"]
          /\ Logged(p, "read_elems", "ok")
          /\ UNCHANGED exc
       \/ /\ Raise(p, "WebDriverException", "read_elems")
          /\ Logged(p, "read_elems", "raised")
          /\ UNCHANGED content
    /\ UNCHANGED << args, url, driver, elapsed, elems, sessions, files, stdout, stderr,
                    rc, exitCode >>

\* fetch lines 158-166: what the whole-document branch returns; bodyOk is FALSE
\* when find_element or body.text raised (caught by except Exception)
DocumentContent(page, as_text, bodyOk) ==
    IF as_text /\ bodyOk /\ page.body.present THEN page.body.text ELSE PageSource(page)

\* fetch lines 158-166: the whole-document branch; driver.page_source may raise
ReadDocument(p) ==
    /\ pc[p] = "whole_doc"
    /\ \/ /\ \E bodyOk \in (IF args[p].as_text THEN BOOLEAN ELSE {TRUE}) :
                /\ content' = [content EXCEPT ![p] =
                                 Some(DocumentContent(SessionOf(p).page, args[p].as_text, bodyOk))]
                /\ Logged(p, "whole_doc", IF bodyOk THEN "ok" ELSE "body_failed")
          /\ pc' = [pc EXCEPT ![p] = "finally"]
          /\ UNCHANGED exc
       \/ /\ Raise(p, "WebDriverException", "whole_doc")
          /\ Logged(p, "whole_doc", "raised")
          /\ UNCHANGED content
    /\ UNCHANGED << args, url, driver, elapsed, elems, sessions, files, stdout, stderr,
                    rc, exitCode >>

\* driver.quit() on a session: the browser ends unless the call raised
Quit(session, out) ==
    [session EXCEPT !.quits = @ + 1, !.live = (out # "ok"), !.page = BlankPage]

\* mutant: driver.quit() as the last statement of the try body instead of in a
\* finally block, so that it is skipped when an exception is propagating
FinallyQuitOnSuccessOnly(p) ==
    /\ pc[p] = "finally"
    /\ IF driver[p] # 0 /\ exc[p] = NoExc
       THEN \E out \in {"ok", "swallowed"} :
               /\ sessions' = [sessions EXCEPT ![driver[p]] = Quit(@, out)]
               /\ Logged(p, "quit", out)
       ELSE UNCHANGED << sessions, log >>
    /\ pc' = [pc EXCEPT ![p] = IF exc[p] # NoExc THEN "main_except" ELSE "main_print"]
    /\ elems' = [elems EXCEPT ![p] = << >>]
    /\ UNCHANGED << args, url, driver, elapsed, exc, content, files, stdout, stderr,
                    rc, exitCode >>

\* mutant: driver.quit() both at the end of the try body and in the finally block
FinallyQuitTwice(p) ==
    /\ pc[p] = "finally"
    /\ IF driver[p] # 0
       THEN \E out \in {"ok", "swallowed"} :
               IF exc[p] = NoExc
               THEN /\ sessions' = [sessions EXCEPT ![driver[p]] = Quit(Quit(@, "ok"), out)]
                    /\ log' = [log EXCEPT ![p] =
                                 @ \o << [step |-> "quit", out |-> "ok"],
                                         [step |-> "quit", out |-> out] >>]
               ELSE /\ sessions' = [sessions EXCEPT ![driver[p]] = Quit(@, out)]
                    /\ Logged(p, "quit", out)
       ELSE UNCHANGED << sessions, log >>
    /\ pc' = [pc EXCEPT ![p] = IF exc[p] # NoExc THEN "main_except" ELSE "main_print"]
    /\ elems' = [elems EXCEPT ![p] = << >>]
    /\ UNCHANGED << args, url, driver, elapsed, exc, content, files, stdout, stderr,
                    rc, exitCode >>

\* mutant: driver.quit() in the finally block without its try/except, so that
\* what it raises replaces the return value or the pending exception
FinallyQuitFailurePropagates(p) ==
    /\ pc[p] = "finally"
    /\ IF driver[p] # 0
       THEN \E out \in {"ok", "raised"} :
               /\ sessions' = [sessions EXCEPT ![driver[p]] = Quit(@, out)]
               /\ Logged(p, "quit", out)
               /\ IF out = "ok"
                  THEN /\ UNCHANGED << exc, content >>
                       /\ pc' = [pc EXCEPT ![p] =
                                   IF exc[p] # NoExc THEN "main_except" ELSE "main_print"]
                  ELSE /\ exc' = [exc EXCEPT ![p] =
                                     [cls |-> "WebDriverException", stage |-> "quit"]]
                       /\ content' = [content EXCEPT ![p] = None]
                       /\ pc' = [pc EXCEPT ![p] = "main_except"]
       ELSE /\ UNCHANGED << sessions, log, exc, content >>
            /\ pc' = [pc EXCEPT ![p] = IF exc[p] # NoExc THEN "main_except" ELSE "main_print"]
    /\ elems' = [elems EXCEPT ![p] = << >>]
    /\ UNCHANGED << args, url, driver, elapsed, files, stdout, stderr, rc, exitCode >>

\* fetch lines 168-173: the finally block. With a driver, driver.quit() is called
\* and whatever it raises is swallowed (the browser is then left as it was); then
\* fetch returns its content to main or the pending exception goes on to main's
\* handlers, and the locals of fetch are gone
Finally(p) ==
    /\ pc[p] = "finally"
    /\ IF driver[p] # 0
       THEN \E out \in {"ok", "swallowed"} :
               /\ sessions' = [sessions EXCEPT ![driver[p]] = Quit(@, out)]
               /\ Logged(p, "quit", out)
       ELSE UNCHANGED << sessions, log >>
    /\ pc' = [pc EXCEPT ![p] = IF exc[p] # NoExc THEN "main_except" ELSE "main_print"]
    /\ elems' = [elems EXCEPT ![p] = << >>]
    /\ UNCHANGED << args, url, driver, elapsed, exc, content, files, stdout, stderr,
                    rc, exitCode >>

\* ------------------------------------------------------------ main, the rest

\* mutant: the tag chosen by the step that failed, not by the exception class
ErrorTagByStep(e) ==
    IF e.stage = "launch" THEN "session_start_failed"
    ELSE IF e.stage \in {"set_page_load_timeout", "get"} THEN "navigation_failed"
    ELSE "fetch_failed"

\* main lines 206-211: the kind tag printed for an exception out of fetch
ErrorTag(e) == IF IsWebDriverException(e) THEN "selenium_webdriver_failed" ELSE "fetch_failed"

\* main lines 206-211: report the exception on stderr and return 1
MainExcept(p) ==
    /\ pc[p] = "main_except"
    /\ stderr' = [stderr EXCEPT ![p] = Append(@, << "error", ErrorTag(exc[p]), exc[p].stage >>)]
    /\ rc' = [rc EXCEPT ![p] = 1]
    /\ pc' = [pc EXCEPT ![p] = "main_returned"]
    /\ UNCHANGED << args, url, driver, elapsed, elems, exc, content, sessions, files,
                    log, stdout, exitCode >>

\* main lines 214-222: the header block
Header(p) ==
    << << "url", url[p] >> >>
    \o (IF Truthy(args[p].selector)
        THEN << << "selector", args[p].selector.val, IF args[p].as_text THEN "text" ELSE "html" >> >>
        ELSE << << "mode", IF args[p].as_text THEN "text" ELSE "html" >> >>)
    \o (IF Truthy(args[p].screenshot_path)
        THEN << << "screenshot", args[p].screenshot_path.val >> >>
        ELSE << >>)
    \o << << "rule" >> >>

\* main lines 213-224: print the header and the content, return 0
MainPrint(p) ==
    /\ pc[p] = "main_print"
    /\ stdout' = [stdout EXCEPT ![p] = @ \o Header(p) \o << << "content", content[p].val >> >>]
    /\ rc' = [rc EXCEPT ![p] = 0]
    /\ pc' = [pc EXCEPT ![p] = "main_returned"]
    /\ UNCHANGED << args, url, driver, elapsed, elems, exc, content, sessions, files,
                    log, stderr, exitCode >>

\* lines 227-228: main() is called as a statement, so what it returned is dropped
\* and the interpreter ends with status 0
ExitStatus(returned) == 0

\* lines 227-228: the script ends
ProcessExit(p) ==
    /\ pc[p] = "main_returned"
    /\ exitCode' = [exitCode EXCEPT ![p] = ExitStatus(rc[p])]
    /\ pc' = [pc EXCEPT ![p] = "exited"]
    /\ UNCHANGED << args, url, driver, elapsed, elems, exc, content, sessions, files,
                    log, stdout, stderr, rc >>

\* ------------------------------------------------------------ environment

\* the steps of fetch up to its last look at the elements the selector matches
Observing == {"load_wait", "sleep", "selector_wait", "screenshot", "find_elements"}

\* the pages a page can turn into in one change: a matching element is added at
\* the end, or the first one is removed
PageSuccessors(page) ==
    (IF Len(page.elems) < MaxElems
          THEN {[page EXCEPT !.elems = Append(@, e)] : e \in Elements}
          ELSE {})
    \cup (IF page.elems # << >> THEN {[page EXCEPT !.elems = Tail(@)]} ELSE {})

\* scripts of the loaded page change what the selector matches while fetch waits
\* (lines 117-147)
PageChange(sid) ==
    /\ sid \in DOMAIN sessions
    /\ sessions[sid].live /\ sessions[sid].loaded
    /\ pc[sessions[sid].owner] \in Observing
    /\ Truthy(args[sessions[sid].owner].selector)
    /\ \E page \in PageSuccessors(sessions[sid].page) :
          sessions' = [sessions EXCEPT ![sid] = [@ EXCEPT !.page = page]]
    /\ UNCHANGED << args, pc, url, driver, elapsed, elems, exc, content, files, log,
                    stdout, stderr, rc, exitCode >>

\* ------------------------------------------------------ the specification

Next ==
    \/ \E p \in Procs :
          \/ ValidateUrl(p)
          \/ LaunchBrowser(p)
          \/ InjectScript(p)
          \/ SetPageLoadTimeout(p)
          \/ Navigate(p)
          \/ LoadWaitPoll(p)
          \/ FixedSleep(p)
          \/ SelectorWaitPoll(p)
          \/ SaveScreenshot(p)
          \/ FindElements(p)
          \/ ReadElements(p)
          \/ ReadDocument(p)
          \/ Finally(p)
          \/ MainExcept(p)
          \/ MainPrint(p)
          \/ ProcessExit(p)
    \/ \E sid \in 1..Cardinality(Procs) : PageChange(sid)

Spec == Init /\ [][Next]_vars

\* the argument lists of the runs that are started two at a time
SelectorRun ==
    [url |-> UrlHttpsPadded, timeout |-> 0, wait_seconds |-> 1, selector |-> Some(".item"),
     as_text |-> FALSE, screenshot_path |-> Some("shot.png")]
RejectedRun ==
    [url |-> UrlFtp, timeout |-> 0, wait_seconds |-> 0, selector |-> None,
     as_text |-> FALSE, screenshot_path |-> None]
TextRun ==
    [url |-> UrlHttpsPadded, timeout |-> 0, wait_seconds |-> 0, selector |-> None,
     as_text |-> TRUE, screenshot_path |-> Some("shot.png")]
MarkupRun ==
    [url |-> UrlHttpNoHost, timeout |-> 0, wait_seconds |-> 0, selector |-> None,
     as_text |-> FALSE, screenshot_path |-> None]

\* two invocations of the script running at the same time, as two processes:
\* two whole-document fetches, each with a browser of its own, or a fetch with
\* selector, delay and screenshot beside an invocation whose URL is rejected
ConcurrentRuns ==
    {<< TextRun, MarkupRun >>, << SelectorRun, RejectedRun >>,
     << SelectorRun, [RejectedRun EXCEPT !.url = UrlBlank] >>}

InitConcurrent ==
    /\ \E runs \in ConcurrentRuns :
           args = [p \in Procs |-> IF p = "p1" THEN runs[1] ELSE runs[2]]
    /\ Started(Procs)

SpecConcurrent == InitConcurrent /\ [][Next]_vars

\* ------------------------------------------------- reading the history

HasStep(p, step) == \E i \in DOMAIN log[p] : log[p][i].step = step
HasEntry(p, step, out) == \E i \in DOMAIN log[p] : log[p][i] = [step |-> step, out |-> out]
Count(p, step) == Cardinality({i \in DOMAIN log[p] : log[p][i].step = step})
CountEntry(p, step, out) ==
    Cardinality({i \in DOMAIN log[p] : log[p][i] = [step |-> step, out |-> out]})
\* some driver call of the invocation raised into fetch
Raised(p) == \E i \in DOMAIN log[p] : log[p][i].out = "raised"
StepNames(l) == [i \in DOMAIN l |-> l[i].step]
IsPrefix(s, t) == Len(s) <= Len(t) /\ SubSeq(t, 1, Len(s)) = s

\* fetch has been called and has returned or raised to main
FetchReturned(p) ==
    \/ pc[p] \in {"main_except", "main_print"}
    \/ pc[p] \in {"main_returned", "exited"} /\ HasEntry(p, "validate_url", "ok")

\* the browser sessions an invocation started
SessionsOf(p) == {sid \in DOMAIN sessions : sessions[sid].owner = p}

\* ----------------------------------------------------------------- claims

\* C1: whenever fetch has returned or raised, every browser session it acquired
\* has had driver.quit invoked on it, whichever step ended the call.
C1_SessionTornDown ==
    \A p \in Procs :
        FetchReturned(p) => \A sid \in SessionsOf(p) : sessions[sid].quits >= 1

\* C1 witness: fetch raised out of the screenshot step and its session was quit.
C1_Witness ==
    \E p \in Procs :
        /\ pc[p] = "main_except"
        /\ exc[p].stage = "save_screenshot"
        /\ SessionsOf(p) # {}
        /\ \A sid \in SessionsOf(p) : sessions[sid].quits >= 1

\* C2: driver.quit is invoked exactly once per successful build_driver: never
\* more often than the browser was started, and as often once fetch is over.
C2_QuitOncePerAcquire ==
    \A p \in Procs :
        /\ Count(p, "quit") <= CountEntry(p, "launch", "ok")
        /\ CountEntry(p, "launch", "ok") <= 1
        /\ \A sid \in SessionsOf(p) : sessions[sid].quits <= 1
        /\ FetchReturned(p) => Count(p, "quit") = CountEntry(p, "launch", "ok")

\* C2 witness: a successful fetch whose single session was quit exactly once.
C2_Witness ==
    \E p \in Procs :
        /\ pc[p] = "main_print"
        /\ content[p].some
        /\ CountEntry(p, "launch", "ok") = 1
        /\ Count(p, "quit") = 1

\* a URL as section 3 of the specification wants it: absolute, scheme http or
\* https, that is the scheme prefix followed by a host
WellFormedUrl(u) ==
    LET v == Strip(u)
    IN  \/ StartsWith(v, HttpPrefix) /\ Len(v) > Len(HttpPrefix)
        \/ StartsWith(v, HttpsPrefix) /\ Len(v) > Len(HttpsPrefix)

\* a URL that is empty once stripped, or does not begin with http:// or https://
LacksHttpPrefix(u) ==
    LET v == Strip(u)
    IN  v = << >> \/ ~(StartsWith(v, HttpPrefix) \/ StartsWith(v, HttpsPrefix))

\* C3 as stated: for every URL that is not a well-formed absolute http/https URL
\* (empty, missing scheme, malformed) no browser is started and the invocation
\* ends with the input error.
C3_Original_InvalidUrlNeverStarts ==
    \A p \in Procs :
        ~WellFormedUrl(args[p].url) =>
            /\ ~HasStep(p, "launch")
            /\ SessionsOf(p) = {}
            /\ pc[p] \in {"main_returned", "exited"} => rc[p] = 2

\* C3 as amended: for every URL that is empty once stripped or lacks the http://
\* or https:// prefix, no browser start is attempted, no session exists, and main
\* returns 2 after one error line; nothing is printed to stdout.
C3_RejectedUrlNeverStarts ==
    \A p \in Procs :
        LacksHttpPrefix(args[p].url) =>
            /\ ~HasStep(p, "launch")
            /\ SessionsOf(p) = {}
            /\ driver[p] = 0
            /\ pc[p] \in {"absent", "main", "main_returned", "exited"}
            /\ pc[p] \in {"main_returned", "exited"} =>
                  /\ rc[p] = 2
                  /\ Len(stderr[p]) = 1
                  /\ stdout[p] = << >>

\* C3 witness: a URL with a scheme other than http/https was rejected with 2 and
\* no session was started.
C3_Witness ==
    \E p \in Procs :
        /\ args[p].url = UrlFtp
        /\ pc[p] = "main_returned"
        /\ rc[p] = 2
        /\ stderr[p] = << << "error", "url_must_start_with_http_or_https" >> >>
        /\ sessions = << >>

\* the exit status section 6 of the specification gives an invocation
ExpectedExitCode(p) ==
    IF HasEntry(p, "validate_url", "ValueError") THEN 2
    ELSE IF Raised(p) THEN 1
    ELSE 0

\* C4 as stated: the process exits with 0 on success, 2 on input validation
\* failure and 1 on any fetch failure.
C4_ExitCodes ==
    \A p \in Procs : pc[p] = "exited" => exitCode[p] = ExpectedExitCode(p)

\* C4 evidence: the run the failing input gives; main returned 2 and the process
\* ended with status 0.
C4_Diverges ==
    \E p \in Procs : pc[p] = "exited" /\ rc[p] = 2 /\ exitCode[p] = 0

\* the kind section 7 of the specification gives a failure, by the step that
\* raised it; anything past navigation has no kind there
FatalKind(e) ==
    IF e.stage = "launch" THEN "SessionStartError"
    ELSE IF e.stage \in {"set_page_load_timeout", "get"} THEN "NavigationError"
    ELSE "unclassified"

\* the steps of fetch that can raise
RaisingSteps == {"launch", "set_page_load_timeout", "get", "load_wait", "selector_wait",
                 "save_screenshot", "find_elements", "read_elems", "whole_doc"}

\* the last step of the invocation that is not the quit of the finally block
LastStepBeforeQuit(p) ==
    LET l == log[p]
        n == IF l # << >> /\ l[Len(l)].step = "quit" THEN Len(l) - 1 ELSE Len(l)
    IN  l[n]

CurrentExtraction(p) ==
    IF HasStep(p, "read_elems")
    THEN ElementsContent(SessionOf(p).page.elems, args[p].as_text)
    ELSE DocumentContent(SessionOf(p).page, args[p].as_text, HasEntry(p, "whole_doc", "ok"))

\* C6: once the load wait has run out of time (the timeout being 0 or not),
\* fetch has not failed in the load wait; if no later step raises, it goes on to
\* extraction and returns the content of the page as it then is.
C6_LoadTimeoutTolerated ==
    \A p \in Procs :
        HasEntry(p, "load_wait", "timeout") =>
            /\ exc[p].stage # "load_wait"
            /\ pc[p] # "load_wait"
            /\ ~Raised(p) /\ pc[p] = "finally" =>
                  /\ HasStep(p, "whole_doc") \/ HasStep(p, "read_elems")
                  /\ content[p] = Some(CurrentExtraction(p))
            /\ ~Raised(p) /\ FetchReturned(p) => exc[p] = NoExc /\ content[p].some
            /\ ~Raised(p) /\ pc[p] \in {"main_returned", "exited"} => rc[p] = 0

\* C6 witness: timeout 0, no selector, the load wait timed out, and main printed
\* the content and returned 0.
C6_Witness ==
    \E p \in Procs :
        /\ args[p].timeout = 0
        /\ ~Truthy(args[p].selector)
        /\ HasEntry(p, "load_wait", "timeout")
        /\ pc[p] = "main_returned"
        /\ rc[p] = 0
        /\ stdout[p] # << >>
        /\ stdout[p][Len(stdout[p])] = << "content", content[p].val >>

\* C7: once the selector wait has run out of time, fetch has not failed in the
\* selector wait; if no later step raises, extraction runs and returns the
\* content of the page as it then is.
C7_SelectorTimeoutTolerated ==
    \A p \in Procs :
        HasEntry(p, "selector_wait", "timeout") =>
            /\ exc[p].stage # "selector_wait"
            /\ pc[p] # "selector_wait"
            /\ ~Raised(p) /\ pc[p] \notin {"screenshot", "find_elements"} =>
                  HasEntry(p, "find_elements", "ok")
            /\ ~Raised(p) /\ pc[p] = "finally" => content[p] = Some(CurrentExtraction(p))
            /\ ~Raised(p) /\ FetchReturned(p) => exc[p] = NoExc /\ content[p].some

\* C7 witness: the selector wait timed out, find_elements then matched nothing,
\* and fetch returned the whole document.
C7_Witness ==
    \E p \in Procs :
        /\ Truthy(args[p].selector)
        /\ HasEntry(p, "selector_wait", "timeout")
        /\ HasEntry(p, "whole_doc", "ok")
        /\ pc[p] = "main_print"
        /\ content[p].some

\* the steps a complete run of fetch makes for arguments a, in the order the
\* claim gives them; extraction is find_elements and then the read of the
\* matched elements or of the whole document (last), or the whole document alone
ClaimedOrder(a, last) ==
    << "validate_url", "launch", "inject", "set_page_load_timeout", "get", "load_wait" >>
    \o (IF a.wait_seconds > 0 THEN << "sleep" >> ELSE << >>)
    \o (IF a.selector.some /\ a.selector.val # "" THEN << "selector_wait" >> ELSE << >>)
    \o (IF a.screenshot_path.some /\ a.screenshot_path.val # ""
        THEN << "save_screenshot" >> ELSE << >>)
    \o (IF a.selector.some /\ a.selector.val # ""
        THEN << "find_elements", last >> ELSE << "whole_doc" >>)

\* the steps made so far, the closing quit left out
StepsBeforeQuit(p) ==
    LET names == StepNames(log[p])
    IN  IF names # << >> /\ names[Len(names)] = "quit"
        THEN SubSeq(names, 1, Len(names) - 1)
        ELSE names

\* C8: the steps of every invocation are, at any moment, an initial part of the
\* claimed order (acquire, navigation, load wait, fixed delay if requested,
\* selector wait if requested, snapshot if requested, extraction), quit comes
\* only after them, and content is returned only once all of them are made.
C8_StepOrder ==
    \A p \in Procs :
        /\ \E last \in {"read_elems", "whole_doc"} :
              /\ IsPrefix(StepsBeforeQuit(p), ClaimedOrder(args[p], last))
              /\ content[p].some => StepsBeforeQuit(p) = ClaimedOrder(args[p], last)
        /\ \A i \in DOMAIN log[p] : log[p][i].step = "quit" => i = Len(log[p])
        /\ pc[p] = "main_print" => content[p].some

\* C8 witness: a run with the delay, the selector wait and the snapshot all
\* requested has returned content.
C8_Witness ==
    \E p \in Procs :
        /\ args[p].wait_seconds > 0
        /\ Truthy(args[p].selector)
        /\ Truthy(args[p].screenshot_path)
        /\ pc[p] = "main_print"
        /\ content[p].some
        /\ StepsBeforeQuit(p) =
              << "validate_url", "launch", "inject", "set_page_load_timeout", "get",
                 "load_wait", "sleep", "selector_wait", "save_screenshot",
                 "find_elements", "read_elems" >>

\* C9: when navigation has failed (driver.get raised, or the page load timeout
\* could not be set), the invocation has written no screenshot file and has not
\* called save_screenshot, whatever was requested.
C9_NoScreenshotOnNavigationError ==
    \A p \in Procs :
        exc[p].stage \in {"set_page_load_timeout", "get"} =>
            /\ ~HasStep(p, "save_screenshot")
            /\ \A f \in files : f[2] # p

\* C9 witness: a screenshot was requested, navigation timed out, main reported
\* the failure, and there is no screenshot file.
C9_Witness ==
    \E p \in Procs :
        /\ Truthy(args[p].screenshot_path)
        /\ exc[p] = [cls |-> "TimeoutException", stage |-> "get"]
        /\ pc[p] = "main_returned"
        /\ files = {}

\* the place of the first entry of a step in the history, 0 when there is none
FirstIndex(p, steps) ==
    IF \E i \in DOMAIN log[p] : log[p][i].step \in steps
    THEN CHOOSE i \in DOMAIN log[p] :
            /\ log[p][i].step \in steps
            /\ \A j \in 1..(i - 1) : log[p][j].step \notin steps
    ELSE 0

ExtractionSteps == {"find_elements", "read_elems", "whole_doc"}

\* C10: with a snapshot path, once extraction is reached save_screenshot has been
\* called exactly once, before the first read of content, whatever the selector
\* and the mode; it is never called twice; without a path it is never called and
\* no file is written.
C10_CaptureOnceBeforeExtraction ==
    \A p \in Procs :
        /\ Count(p, "save_screenshot") <= 1
        /\ args[p].screenshot_path.some /\ args[p].screenshot_path.val # ""
           /\ FirstIndex(p, ExtractionSteps) # 0 =>
              /\ Count(p, "save_screenshot") = 1
              /\ FirstIndex(p, {"save_screenshot"}) < FirstIndex(p, ExtractionSteps)
        /\ ~(args[p].screenshot_path.some /\ args[p].screenshot_path.val # "") =>
              /\ Count(p, "save_screenshot") = 0
              /\ \A f \in files : f[2] # p
        /\ (\E f \in files : f[2] = p) <=> HasEntry(p, "save_screenshot", "written")

\* C10 witness: in text mode with a selector that matched, the snapshot was
\* written once and the matched elements were then read.
C10_Witness ==
    \E p \in Procs :
        /\ args[p].as_text
        /\ Truthy(args[p].selector)
        /\ HasEntry(p, "save_screenshot", "written")
        /\ HasEntry(p, "read_elems", "ok")
        /\ files = {<< "shot.png", p >>}
        /\ pc[p] = "finally"

\* what extraction without a selector returns for a page, as section 4 of the
\* specification words it: in text mode the visible text of the body, or the
\* markup of the document when the body cannot be read; in markup mode the markup
WholeDocumentResult(page, as_text, bodyRead) ==
    IF ~as_text THEN PageSource(page)
    ELSE IF bodyRead /\ page.body.present THEN page.body.text
    ELSE PageSource(page)

\* the try body of fetch has ended with a return value
Returning(p) == pc[p] = "finally" /\ exc[p] = NoExc

\* C11: when the selector matched zero elements, find_elements has not failed and
\* fetch returns exactly what a fetch without selector returns for the same page
\* and mode: the whole-document result; the empty match is not an error.
C11_ZeroMatchIsWholeDocument ==
    \A p \in Procs :
        /\ HasEntry(p, "find_elements", "ok") /\ elems[p] = << >>
           /\ pc[p] \in {"read_elems", "whole_doc", "finally"} =>
              /\ exc[p].stage # "find_elements"
              /\ ~HasStep(p, "read_elems")
              /\ pc[p] # "read_elems"
              /\ pc[p] = "finally" => HasStep(p, "whole_doc")
        /\ Returning(p) /\ (~Truthy(args[p].selector) \/ elems[p] = << >>) =>
              content[p] = Some(WholeDocumentResult(SessionOf(p).page, args[p].as_text,
                                                    HasEntry(p, "whole_doc", "ok")))

\* C11 witness: in text mode a selector matched nothing and fetch is returning
\* the text of the body.
C11_Witness ==
    \E p \in Procs :
        /\ Truthy(args[p].selector)
        /\ args[p].as_text
        /\ HasEntry(p, "find_elements", "ok")
        /\ elems[p] = << >>
        /\ Returning(p)
        /\ content[p] = Some("Body")

\* the strings of a non-empty list, in order, a blank line ("\n\n") between
\* neighbours and none before the first or after the last
RECURSIVE JoinedByBlankLine(_)
JoinedByBlankLine(parts) ==
    IF Len(parts) = 1 THEN parts[1]
    ELSE JoinedByBlankLine(SubSeq(parts, 1, Len(parts) - 1)) \o "\n\n" \o parts[Len(parts)]

\* C12: in markup mode, when find_elements matched n >= 1 elements, fetch returns
\* the outerHTML of every matched element, in document order, joined by "\n\n"
\* with no separator before the first or after the last; for <p>A</p> and
\* <p>B</p> that is "<p>A</p>\n\n<p>B</p>".
C12_MarkupOfEveryMatch ==
    \A p \in Procs :
        Returning(p) /\ ~args[p].as_text /\ elems[p] # << >> =>
            /\ HasEntry(p, "read_elems", "ok")
            /\ content[p] = Some(JoinedByBlankLine([i \in DOMAIN elems[p] |-> elems[p][i].html]))
            /\ elems[p] = << ElemA >> => content[p] = Some("<p>A</p>")
            /\ elems[p] = << ElemA, ElemB >> => content[p] = Some("<p>A</p>\n\n<p>B</p>")
            /\ elems[p] = << ElemB, ElemA >> => content[p] = Some("<p>B</p>\n\n<p>A</p>")

\* C12 witness: the selector matched <p>A</p> and <p>B</p> in that order and
\* fetch is returning their markup.
C12_Witness ==
    \E p \in Procs :
        /\ ~args[p].as_text
        /\ elems[p] = << ElemA, ElemB >>
        /\ Returning(p)
        /\ content[p] = Some("<p>A</p>\n\n<p>B</p>")

\* the texts of the elements whose text is not empty, in document order
TextsOfNonEmpty(es) ==
    LET kept == SelectSeq(es, LAMBDA e : e.text # "")
    IN  [i \in DOMAIN kept |-> kept[i].text]

\* C13: in text mode, when find_elements matched n >= 1 elements of which some
\* have text, fetch returns the texts of the elements with non-empty text, in
\* document order, joined by a blank line; an element with empty text adds
\* neither text nor separator: an empty element and one with text "A", in either
\* order, give exactly "A".
C13_TextOfNonEmptyMatches ==
    \A p \in Procs :
        Returning(p) /\ args[p].as_text /\ elems[p] # << >>
        /\ TextsOfNonEmpty(elems[p]) # << >> =>
            /\ HasEntry(p, "read_elems", "ok")
            /\ content[p] = Some(JoinedByBlankLine(TextsOfNonEmpty(elems[p])))
            /\ elems[p] \in {<< ElemBlank, ElemA >>, << ElemA, ElemBlank >>} =>
                  content[p] = Some("A")
            /\ elems[p] = << ElemA, ElemB >> => content[p] = Some("A\n\nB")

\* C13 witness: the selector matched an element with empty text and then one with
\* text "A", and fetch is returning exactly "A".
C13_Witness ==
    \E p \in Procs :
        /\ args[p].as_text
        /\ elems[p] = << ElemBlank, ElemA >>
        /\ Returning(p)
        /\ content[p] = Some("A")

Waits == {"load_wait", "selector_wait"}

\* neither wait takes from or adds to the other's budget: the time a wait has
\* used is its own, never more than its deadline, and is gone when it ends
OwnBudgets ==
    \A p \in Procs :
        /\ pc[p] \notin Waits => elapsed[p] = 0
        /\ pc[p] = "load_wait" => elapsed[p] <= LoadWaitDeadline(args[p])
        /\ pc[p] = "selector_wait" => elapsed[p] <= SelectorWaitDeadline(args[p])

\* C14 as stated: the two waits have budgets of their own, and the caller can
\* give the load wait and the selector wait different deadlines.
C14_Original_IndependentDeadlines ==
    /\ OwnBudgets
    /\ \E a \in Args : LoadWaitDeadline(a) # SelectorWaitDeadline(a)

\* C14 as amended: both waits are given the one timeout argument as their
\* deadline, so the caller cannot set them apart; each wait starts its own clock
\* when it begins, so neither takes from or adds to the other's budget.
C14_OneTimeoutOwnClocks ==
    /\ [](/\ OwnBudgets
          /\ \A p \in Procs : /\ LoadWaitDeadline(args[p]) = args[p].timeout
                               /\ SelectorWaitDeadline(args[p]) = args[p].timeout)
    /\ [][\A p \in Procs :
             pc'[p] \in Waits /\ pc'[p] # pc[p] => elapsed'[p] = 0]_vars

\* C14 witness: with timeout 1 the load wait used its whole budget and timed out,
\* and the selector wait has since slept a poll interval of its own.
C14_Witness ==
    \E p \in Procs :
        /\ args[p].timeout = 1
        /\ HasEntry(p, "load_wait", "timeout")
        /\ pc[p] = "selector_wait"
        /\ elapsed[p] = 1

\* C15: the fixed delay is never applied twice; when wait_seconds > 0 and the
\* load wait has returned, ready or timed out, the delay is the very next step
\* and is applied once before the selector wait or any later step; when
\* wait_seconds is not positive there is no delay step at all.
C15_FixedDelayOnceAfterLoadWait ==
    \A p \in Procs :
        /\ Count(p, "sleep") <= 1
        /\ args[p].wait_seconds <= 0 => Count(p, "sleep") = 0 /\ pc[p] # "sleep"
        /\ \A i \in DOMAIN log[p] :
              /\ log[p][i].step = "sleep" =>
                    /\ i > 1
                    /\ log[p][i - 1].step = "load_wait"
                    /\ log[p][i - 1].out \in {"ready", "timeout"}
              /\ args[p].wait_seconds > 0 /\ log[p][i].step = "load_wait"
                 /\ log[p][i].out \in {"ready", "timeout"} =>
                    IF i = Len(log[p]) THEN pc[p] = "sleep"
                    ELSE log[p][i + 1] = [step |-> "sleep", out |-> "ok"]
        /\ FirstIndex(p, {"selector_wait"}) # 0 /\ args[p].wait_seconds > 0 =>
              /\ FirstIndex(p, {"sleep"}) # 0
              /\ FirstIndex(p, {"sleep"}) < FirstIndex(p, {"selector_wait"})

\* C15 witness: a delay was requested, the load wait timed out, the delay was
\* applied once and the selector wait has run after it.
C15_Witness ==
    \E p \in Procs :
        /\ args[p].wait_seconds > 0
        /\ HasEntry(p, "load_wait", "timeout")
        /\ Count(p, "sleep") = 1
        /\ HasStep(p, "selector_wait")
        /\ FirstIndex(p, {"sleep"}) < FirstIndex(p, {"selector_wait"})

\* driver.quit() of the invocation failed
QuitFailed(p) == \E i \in DOMAIN log[p] : log[p][i].step = "quit" /\ log[p][i].out # "ok"

\* C16: a failure of driver.quit() is never what fetch raises and never changes
\* the outcome: the finally block leaves the content to return and the pending
\* exception as they were, so after a failed quit fetch still returns the content
\* extraction produced, or still raises the exception of the step that failed,
\* and main reports that outcome.
C16_QuitFailureNotSurfaced ==
    /\ [](\A p \in Procs :
             /\ exc[p].stage # "quit"
             /\ QuitFailed(p) =>
                   /\ FetchReturned(p)
                   /\ IF Raised(p)
                      THEN /\ exc[p] # NoExc
                           /\ LastStepBeforeQuit(p) = [step |-> exc[p].stage, out |-> "raised"]
                      ELSE /\ exc[p] = NoExc
                           /\ content[p].some
                   /\ pc[p] \in {"main_returned", "exited"} =>
                         IF Raised(p)
                         THEN /\ rc[p] = 1
                              /\ stderr[p] = << << "error", ErrorTag(exc[p]), exc[p].stage >> >>
                         ELSE /\ rc[p] = 0
                              /\ stderr[p] = << >>
                              /\ stdout[p][Len(stdout[p])] = << "content", content[p].val >>)
    /\ [][\A p \in Procs :
             pc[p] = "finally" /\ pc'[p] # "finally" =>
                /\ content'[p] = content[p]
                /\ exc'[p] = exc[p]
                /\ pc'[p] = (IF exc[p] = NoExc THEN "main_print" ELSE "main_except")]_vars

\* C16 witness: extraction produced content, driver.quit() then failed leaving
\* the browser alive, and main printed that content and returned 0.
C16_Witness ==
    \E p \in Procs :
        /\ HasEntry(p, "quit", "swallowed")
        /\ sessions[driver[p]].live
        /\ pc[p] = "main_returned"
        /\ rc[p] = 0
        /\ content[p].some
        /\ stdout[p][Len(stdout[p])] = << "content", content[p].val >>

\* everything an invocation holds: where it is, its locals, its output
Locals(p) ==
    << pc[p], url[p], driver[p], elapsed[p], elems[p], exc[p], content[p], log[p],
       stdout[p], stderr[p], rc[p], exitCode[p] >>

\* the browser sessions an invocation started, each with its state
OwnedBy(p) == [sid \in SessionsOf(p) |-> sessions[sid]]

\* the page of the one session an invocation started
OwnPage(p) == sessions[CHOOSE sid \in SessionsOf(p) : TRUE].page

\* C17: of two invocations running at once, each starts at most one session and
\* drives the session it started, never the other's; a step of one changes
\* neither the other's locals and output nor the state of the other's session
\* nor the screenshot files the other wrote; and what an invocation returns is
\* the extraction of its own page, as when it runs alone.
C17_InvocationsIndependent ==
    /\ [](\A p \in Procs :
             /\ Cardinality(SessionsOf(p)) <= 1
             /\ driver[p] # 0 => driver[p] \in SessionsOf(p)
             /\ \A q \in Procs \ {p} : driver[p] # 0 => driver[q] # driver[p]
             /\ Returning(p) =>
                   content[p] =
                      Some(IF HasStep(p, "read_elems")
                           THEN ElementsContent(OwnPage(p).elems, args[p].as_text)
                           ELSE WholeDocumentResult(OwnPage(p), args[p].as_text,
                                                    HasEntry(p, "whole_doc", "ok"))))
    /\ [][\A p \in Procs : \A q \in Procs \ {p} :
             Locals(q)' # Locals(q) =>
                /\ Locals(p)' = Locals(p)
                /\ OwnedBy(p)' = OwnedBy(p)
                /\ {f \in files' : f[2] = p} = {f \in files : f[2] = p}]_vars

\* C17 witness: two invocations hold a live browser each, with different pages
\* loaded; the first is returning the text of its page while the second has yet
\* to read its own.
C17_Witness ==
    /\ driver["p1"] # 0 /\ driver["p2"] # 0 /\ driver["p1"] # driver["p2"]
    /\ sessions[driver["p1"]].live /\ sessions[driver["p2"]].live
    /\ OwnPage("p1").body.present /\ ~OwnPage("p2").body.present
    /\ Returning("p1") /\ content["p1"] = Some("Body")
    /\ pc["p2"] = "whole_doc"

\* C18: when validation failed or fetch raised, main has written nothing to
\* stdout; nothing is on stdout before fetch has returned, and what is there
\* then is the header followed by the content fetch returned.
C18_NoStdoutOnFailure ==
    \A p \in Procs :
        /\ HasEntry(p, "validate_url", "ValueError") \/ exc[p] # NoExc \/ rc[p] \in {1, 2} =>
              stdout[p] = << >>
        /\ pc[p] \notin {"main_returned", "exited"} => stdout[p] = << >>
        /\ stdout[p] # << >> =>
              /\ FetchReturned(p)
              /\ exc[p] = NoExc
              /\ content[p].some
              /\ rc[p] = 0
              /\ stdout[p] = Header(p) \o << << "content", content[p].val >> >>

\* C18 witness: fetch got as far as reading the matched elements, which raised;
\* main reported the failure on stderr, returned 1, and stdout is empty.
C18_Witness ==
    \E p \in Procs :
        /\ HasEntry(p, "read_elems", "raised")
        /\ pc[p] = "main_returned"
        /\ rc[p] = 1
        /\ stderr[p] # << >>
        /\ stdout[p] = << >>

\* main has reported a failure and returned
Reported(p) == pc[p] \in {"main_returned", "exited"} /\ rc[p] \in {1, 2}

\* which fatal kind of section 7 of the specification a reported failure is
ReportedKind(p) ==
    IF HasEntry(p, "validate_url", "ValueError") THEN "InvalidInput" ELSE FatalKind(exc[p])

ThreeKinds == {"InvalidInput", "SessionStartError", "NavigationError"}

C20_StartFailureFatalNotRetried ==
    \A p \in Procs :
        /\ Count(p, "launch") <= 1
        /\ HasEntry(p, "launch", "raised") =>
              /\ StepNames(log[p]) = << "validate_url", "launch" >>
              /\ driver[p] = 0
              /\ SessionsOf(p) = {}
              /\ exc[p].stage = "launch"
              /\ ~content[p].some
              /\ \A f \in files : f[2] # p
              /\ pc[p] \in {"finally", "main_except", "main_returned", "exited"}
              /\ pc[p] \in {"main_returned", "exited"} =>
                    /\ rc[p] = 1
                    /\ stderr[p] = << << "error", ErrorTag(exc[p]), "launch" >> >>

\* C20 witness: the browser start failed, fetch has ended and main reported the
\* failure; one start was tried, no session exists and quit was never called.
C20_Witness ==
    \E p \in Procs :
        /\ log[p] = << [step |-> "validate_url", out |-> "ok"],
                       [step |-> "launch", out |-> "raised"] >>
        /\ sessions = << >>
        /\ pc[p] = "main_returned"
        /\ rc[p] = 1
        /\ stderr[p] = << << "error", "selenium_webdriver_failed", "launch" >> >>

\* C21: whether the script injection of build_driver succeeded or failed, no
\* exception of it reaches fetch, build_driver returns the session it started,
\* which fetch holds as its driver, the next step is the one that prepares
\* navigation, and nothing about the injection is ever written to stderr.
C21_InjectionFailureIgnored ==
    \A p \in Procs :
        /\ exc[p].stage # "inject"
        /\ \A i \in DOMAIN log[p] :
              log[p][i].step = "inject" =>
                 /\ log[p][i].out \in {"ok", "swallowed"}
                 /\ driver[p] # 0
                 /\ driver[p] \in SessionsOf(p)
                 /\ log[p][i - 1] = [step |-> "launch", out |-> "ok"]
                 /\ IF i = Len(log[p]) THEN pc[p] = "set_page_load_timeout"
                    ELSE log[p][i + 1].step = "set_page_load_timeout"
        /\ \A j \in DOMAIN stderr[p] : stderr[p][j][Len(stderr[p][j])] # "inject"

\* C21 witness: the injection failed, navigation then loaded the page and fetch
\* returned content to main.
C21_Witness ==
    \E p \in Procs :
        /\ HasEntry(p, "inject", "swallowed")
        /\ HasEntry(p, "get", "ok")
        /\ pc[p] = "main_print"
        /\ content[p].some
        /\ stderr[p] = << >>

\* every element of a list has empty visible text
AllTextsEmpty(es) == \A i \in DOMAIN es : es[i].text = ""

\* C22: once find_elements has matched at least one element, the whole-document
\* block is never run; what fetch returns is built from the matched elements
\* alone, and in text mode with every matched text empty it is the empty string,
\* not the body text or the markup of the document, and no error.
C22_NoFallbackAfterMatch ==
    \A p \in Procs :
        elems[p] # << >> =>
            /\ pc[p] \in {"read_elems", "finally"}
            /\ ~HasStep(p, "whole_doc")
            /\ Returning(p) =>
                  /\ HasEntry(p, "read_elems", "ok")
                  /\ ~Raised(p)
                  /\ content[p] =
                        Some(IF args[p].as_text
                             THEN (IF AllTextsEmpty(elems[p]) THEN ""
                                   ELSE JoinedByBlankLine(TextsOfNonEmpty(elems[p])))
                             ELSE JoinedByBlankLine([i \in DOMAIN elems[p] |-> elems[p][i].html]))
                  /\ args[p].as_text /\ AllTextsEmpty(elems[p]) =>
                        /\ content[p] = Some("")
                        /\ content[p] # Some(PageSource(SessionOf(p).page))
                        /\ SessionOf(p).page.body.present =>
                              content[p] # Some(SessionOf(p).page.body.text)

\* C22 witness: in text mode the selector matched one element with empty text on
\* a page whose body has text, and fetch is returning the empty string.
C22_Witness ==
    \E p \in Procs :
        /\ args[p].as_text
        /\ elems[p] = << ElemBlank >>
        /\ SessionOf(p).page.body = [present |-> TRUE, text |-> "Body"]
        /\ Returning(p)
        /\ content[p] = Some("")

\* a failure other than a TimeoutException raised out of a wait aborts fetch:
\* it is the exception fetch ends with, no later step is made but the quit of
\* the finally block, no screenshot is taken or written, no content is returned,
\* driver.quit() is called once, and main reports the failure
WaitFaultAborts ==
    \A p \in Procs : \A w \in Waits :
        /\ exc[p].stage = w =>
              /\ exc[p].cls # "TimeoutException"
              /\ HasEntry(p, w, "raised")
        /\ HasEntry(p, w, "raised") =>
              /\ exc[p] = [cls |-> "WebDriverException", stage |-> w]
              /\ LastStepBeforeQuit(p) = [step |-> w, out |-> "raised"]
              /\ ~HasStep(p, "save_screenshot")
              /\ \A f \in files : f[2] # p
              /\ ~content[p].some
              /\ stdout[p] = << >>
              /\ pc[p] \in {"finally", "main_except", "main_returned", "exited"}
              /\ FetchReturned(p) =>
                    /\ Count(p, "quit") = 1
                    /\ sessions[driver[p]].quits = 1
              /\ pc[p] \in {"main_returned", "exited"} =>
                    /\ rc[p] = 1
                    /\ stderr[p] = << << "error", "selenium_webdriver_failed", w >> >>

\* C23 as stated: a wait is left without readiness or a match, and without an
\* error, only when its deadline has elapsed; any other failure raised while
\* polling aborts fetch, with no screenshot, no content, and the session quit.
C23_Original_OnlyDeadlineElapse ==
    /\ []WaitFaultAborts
    /\ [][\A p \in Procs :
             pc[p] \in Waits
             /\ log'[p] = Append(log[p], [step |-> pc[p], out |-> "timeout"])
             => DeadlinePassed(p)]_vars

\* C23 as amended: inside the two waits every TimeoutException is tolerated, the
\* wait's own at its deadline as well as one the driver raised for the polled
\* command before the deadline; fetch then goes on without an error. Any other
\* failure raised out of a wait aborts fetch with that error, with no screenshot
\* taken, no content returned, and driver.quit() still called.
C23_TimeoutsToleratedFaultsAbort ==
    /\ WaitFaultAborts
    /\ \A p \in Procs : \A w \in Waits :
          HasEntry(p, w, "timeout") =>
             /\ exc[p].stage # w
             /\ pc[p] # w
             /\ Count(p, w) = 1

\* C23 witness: a screenshot was requested, the selector wait met a driver fault
\* after the load wait had timed out; fetch quit the browser, no file was
\* written, and main reported the failure.
C23_Witness ==
    \E p \in Procs :
        /\ Truthy(args[p].screenshot_path)
        /\ HasEntry(p, "load_wait", "timeout")
        /\ HasEntry(p, "selector_wait", "raised")
        /\ HasEntry(p, "quit", "ok")
        /\ files = {}
        /\ pc[p] = "main_returned"
        /\ rc[p] = 1
        /\ stderr[p] = << << "error", "selenium_webdriver_failed", "selector_wait" >> >>

====
